---- MODULE Spec2Model ----
(***************************************************************************)
(* Model of app.py: the submission ledger (submissions_v3.csv guarded by   *)
(* submissions_v3.csv.lock), the scoring functions, the leaderboard and    *)
(* the instructor reset.                                                   *)
(*                                                                         *)
(* Every browser session runs the whole script (init_storage(); main())    *)
(* once per rerun; sessions run concurrently.  One action is one step of   *)
(* the script that touches the shared file or the lock; purely local       *)
(* statements are folded into the step that precedes them.                 *)
(*                                                                         *)
(* The CSV file is modelled at line granularity: a header line (the tuple  *)
(* of column names, <<>> when the file is empty) followed by one record    *)
(* per row.  DataFrame.to_csv(path) is open(path, "w"), which creates or   *)
(* truncates the file, followed by the write of the buffered text at       *)
(* offset 0 when the handle is closed: two steps.                          *)
(*                                                                         *)
(* ts_iso is the reading of the wall clock, an integer number of ticks:    *)
(* isoformat() and pd.to_datetime() preserve the order of the readings.    *)
(***************************************************************************)
EXTENDS Integers, Sequences, FiniteSets, TLC

\* ------------------------------------------------------------------ bounds
MaxSubmits == 2
MaxItems == 2
MaxPoints == 2
MaxHist == 3

\* --------------------------------------------------------------- constants
MinRound == 1
MaxRound == 3
None == -1
BonusClicks == 15
BonusPoints == 10

\* the browser sessions running the script
Procs == {1, 2}
NoProc == 0

VARIABLES
  file,        \* DATA_FILE: [exists, header, rows]
  openFd,      \* sessions holding a write handle on the current DATA_FILE
  lock,        \* holder of LOCK_FILE, NoProc when free
  clock,       \* datetime.now(timezone.utc)
  pc,          \* each session's position in the script
  ret,         \* where init_storage returns to
  kind,        \* what triggered the rerun: "submit", or "other" (a widget, the instructor form)
  row,         \* write_submission's argument
  df,          \* write_submission's local DataFrame
  instructor,  \* the instructor form as applied, and os.environ: [code, action, environ]
  msgs,        \* st.warning / st.error / st.success shown in this rerun
  calls,       \* history: write_submission calls made, per session
  wsWrote,     \* history: the current write_submission call wrote the file
  upset,       \* history: a Timeout or another exception was raised, or a reset ran
  scoreIn,     \* a call of score_binary: [answers, key_items, points_each]
  scoreOut,    \* what the call gave: [done, value, error]
  subs,        \* the leaderboard's df = read_submissions()
  board        \* the leaderboard as drawn: [shown, show_round, best]

ledgerVars == <<file, openFd, lock, clock, pc, ret, kind, row, df, instructor, msgs>>
historyVars == <<calls, wsWrote, upset>>
scoreVars == <<scoreIn, scoreOut>>
boardVars == <<subs, board>>
vars == <<ledgerVars, historyVars, scoreVars, boardVars>>

\* ------------------------------------------------------------ configuration
\* prompts_rounds.json as load_config returns it: round_map and cfg["scenarios"].
round_map(r) ==
  CASE r = 1 -> [scenario_key |-> "fraud", title |-> "Fraud"]
    [] r = 2 -> [scenario_key |-> "churn", title |-> "Churn"]
    [] OTHER -> [scenario_key |-> "late", title |-> "Late Deliveries"]

scenarios(key) ==
  [ problem_single |-> [answer_index |-> 0, points |-> 10],
    goals_multi |-> IF key = "fraud"
                    THEN [answer_indices |-> <<0, 1, 2>>, points_each |-> 2,
                          penalize_extras |-> FALSE]
                    ELSE [answer_indices |-> <<0, 2>>, points_each |-> 2],
    model_single |-> [answer_index |-> 1, points |-> 10],
    feasibility_binary |-> [question_items |-> <<[answer |-> "Yes"], [answer |-> "No"]>>,
                            points_each |-> 5],
    plan_single |-> [answer_index |-> 0, points |-> 10] ]

\* os.getenv("ADMIN_CODE", "letmein"): environ is the variable's value, "" when unset
admin_code(environ) == IF environ = "" THEN "letmein" ELSE environ

\* ------------------------------------------------------------------ scoring
score_section_single(selected_idx, answer_idx, points) ==
  IF selected_idx = answer_idx THEN points ELSE 0

Range(s) == {s[i] : i \in DOMAIN s}

Max(a, b) == IF a >= b THEN a ELSE b

Min(a, b) == IF a <= b THEN a ELSE b

score_section_multi(selected_indices, answer_indices, points_each, penalize_extras) ==
  LET correct == Range(answer_indices)
      chosen == Range(selected_indices)
      hits == Cardinality(correct \cap chosen)
      extras == IF penalize_extras THEN Cardinality(chosen \ correct) ELSE 0
      raw == hits * points_each - (IF penalize_extras THEN extras ELSE 0)
  IN  Max(raw, 0)

RECURSIVE SumTo(_, _)
SumTo(f, n) == IF n = 0 THEN 0 ELSE SumTo(f, n - 1) + f[n]

\* zip(answers, key_items) pairs the first min(len, len) positions
score_binary(answers, key_items, points_each) ==
  LET n == Min(Len(answers), Len(key_items))
      pts == [i \in 1..n |-> IF answers[i] = key_items[i].answer THEN points_each ELSE 0]
  IN  SumTo(pts, n)

\* ---------------------------------------------------------------- the store
InitColumns ==
  <<"ts_iso", "round", "team", "scenario_key", "scenario_title", "score",
    "detail_problem", "detail_goals", "detail_model", "detail_feas", "detail_plan">>

NoFile == [exists |-> FALSE, header |-> <<>>, rows |-> <<>>]

\* open(DATA_FILE, "w"): the file exists and is empty
Truncated == [exists |-> TRUE, header |-> <<>>, rows |-> <<>>]

EmptyFrame == [columns |-> InitColumns, rows |-> <<>>]

\* The buffered text of frame d written at offset 0 of the file as it is now:
\* the first lines are replaced, lines beyond the text stay.
Overlay(f, d) ==
  [exists |-> TRUE, header |-> d.columns,
   rows |-> d.rows \o SubSeq(f.rows, Len(d.rows) + 1, Len(f.rows))]

\* pd.read_csv(DATA_FILE)
read_csv(f) ==
  IF ~f.exists THEN [error |-> "FileNotFoundError", columns |-> <<>>, rows |-> <<>>]
  ELSE IF f.header = <<>> THEN [error |-> "EmptyDataError", columns |-> <<>>, rows |-> <<>>]
  ELSE [error |-> "", columns |-> f.header, rows |-> f.rows]

\* the columns of pd.concat([df, pd.DataFrame([row])]): those of df, then the new ones
ConcatColumns(cols, r) ==
  LET extra == <<"minigame_score", "minigame_bonus">>
  IN  cols \o SelectSeq(extra, LAMBDA c : c \in DOMAIN r /\ c \notin Range(cols))

concat(d, r) == [columns |-> ConcatColumns(d.columns, r), rows |-> Append(d.rows, r)]

\* --------------------------------------------------------- the submit form
\* team.strip(): a team name is a sequence of characters
RECURSIVE LStrip(_)
LStrip(s) == IF s # <<>> /\ Head(s) = " " THEN LStrip(Tail(s)) ELSE s

RECURSIVE RStrip(_)
RStrip(s) == IF s # <<>> /\ s[Len(s)] = " " THEN RStrip(SubSeq(s, 1, Len(s) - 1)) ELSE s

Strip(s) == RStrip(LStrip(s))

\* int(minigame_score) inside try/except: 0 when the text is no integer
ParseClicks(text) ==
  CASE text = "0" -> 0
    [] text = "1" -> 1
    [] text = "14" -> 14
    [] text = "15" -> 15
    [] text = "20" -> 20
    [] OTHER -> 0

\* form_state["feas_answers"] = [0 if ans == "Yes" else 1 ...], then
\* ["Yes" if i == 0 else "No" for i in form_state["feas_answers"]]
FeasStored(feas_answers) == [i \in DOMAIN feas_answers |-> IF feas_answers[i] = "Yes" THEN 0 ELSE 1]

FeasScored(stored) == [i \in DOMAIN stored |-> IF stored[i] = 0 THEN "Yes" ELSE "No"]

penalize_extras_of(goals) ==
  IF "penalize_extras" \in DOMAIN goals THEN goals.penalize_extras ELSE TRUE

\* "accepted", or the warning the submit handler shows instead of scoring
Validate(f) ==
  IF ParseClicks(f.minigame) < 1 THEN "You must play the mini-game before submitting!"
  ELSE IF Strip(f.team) = <<>> THEN "Enter a team name."
  ELSE IF f.prob_idx = None \/ f.model_idx = None \/ f.plan_idx = None
       THEN "Answer all required questions (1, 3, and 5)."
  ELSE "accepted"

MutTotal(s1, s2, s3, s4, s5, bonus) == s1 + s2 + s3 + s5 + bonus

\* total = s1 + s2 + s3 + s4 + s5 + bonus
Total(s1, s2, s3, s4, s5, bonus) == s1 + s2 + s3 + s4 + s5 + bonus

\* the row the submit handler hands to write_submission
BuildRow(f, now) ==
  LET meta == round_map(f.round_num)
      block == scenarios(meta.scenario_key)
      clicks == ParseClicks(f.minigame)
      s1 == score_section_single(f.prob_idx, block.problem_single.answer_index,
                                 block.problem_single.points)
      s2 == score_section_multi(f.goal_choices, block.goals_multi.answer_indices,
                                block.goals_multi.points_each,
                                penalize_extras_of(block.goals_multi))
      s3 == score_section_single(f.model_idx, block.model_single.answer_index,
                                 block.model_single.points)
      s4 == score_binary(FeasScored(FeasStored(f.feas_answers)),
                         block.feasibility_binary.question_items,
                         block.feasibility_binary.points_each)
      s5 == score_section_single(f.plan_idx, block.plan_single.answer_index,
                                 block.plan_single.points)
      bonus == IF clicks >= BonusClicks THEN BonusPoints ELSE 0
  IN  [ ts_iso |-> now, round |-> f.round_num, team |-> Strip(f.team),
        scenario_key |-> meta.scenario_key, scenario_title |-> meta.title,
        score |-> Total(s1, s2, s3, s4, s5, bonus),
        detail_problem |-> s1, detail_goals |-> s2, detail_model |-> s3,
        detail_feas |-> s4, detail_plan |-> s5,
        minigame_score |-> clicks, minigame_bonus |-> bonus ]

\* The forms a session submits: two that are accepted, three that are not.
Forms ==
  { [team |-> <<"A">>, round_num |-> 1, prob_idx |-> 0, goal_choices |-> <<0, 1, 2>>,
     model_idx |-> 1, feas_answers |-> <<"Yes", "No">>, plan_idx |-> 0, minigame |-> "15"],
    [team |-> <<" ", "B", " ">>, round_num |-> 2, prob_idx |-> 1, goal_choices |-> <<0, 1, 3>>,
     model_idx |-> 1, feas_answers |-> <<"Yes", "Yes">>, plan_idx |-> 2, minigame |-> "1"],
    [team |-> <<"A">>, round_num |-> 1, prob_idx |-> 0, goal_choices |-> <<>>,
     model_idx |-> 1, feas_answers |-> <<"Yes", "No">>, plan_idx |-> 0, minigame |-> "abc"],
    [team |-> <<" ">>, round_num |-> 1, prob_idx |-> 0, goal_choices |-> <<>>,
     model_idx |-> 1, feas_answers |-> <<"Yes", "No">>, plan_idx |-> 0, minigame |-> "1"],
    [team |-> <<"B">>, round_num |-> 3, prob_idx |-> 0, goal_choices |-> <<>>,
     model_idx |-> None, feas_answers |-> <<"Yes", "No">>, plan_idx |-> 0, minigame |-> "1"] }

NoRow == [ts_iso |-> None]

\* what the instructor form can hold
Codes == {"letmein", "letmein ", "s3cret"}

Actions == {"(choose one)", "Reset all data"}

\* the values ADMIN_CODE has in a deployment: unset, or a secret
Environs == {"", "s3cret"}

NoInput == [code |-> "", action |-> "(choose one)", environ |-> ""]

MutCodeRejected(code, environ) == code # "letmein"

\* code != admin_code
CodeRejected(code, environ) == code # admin_code(environ)

\* ------------------------------------------------------------ initial state
NoCall == [answers |-> <<>>, key_items |-> <<>>, points_each |-> 0]

NoResult == [done |-> FALSE, value |-> 0, error |-> ""]

NoBoard == [shown |-> FALSE, show_round |-> MinRound, best |-> <<>>]

\* the variables of the scoring and leaderboard specifications, at rest
PureIdle ==
  /\ scoreIn = NoCall
  /\ scoreOut = NoResult
  /\ subs = <<>>
  /\ board = NoBoard

Init ==
  /\ PureIdle
  /\ file = NoFile
  /\ openFd = {}
  /\ lock = NoProc
  /\ clock = 0
  /\ pc = [p \in Procs |-> "idle"]
  /\ ret = [p \in Procs |-> "idle"]
  /\ kind = [p \in Procs |-> "other"]
  /\ row = [p \in Procs |-> NoRow]
  /\ df = [p \in Procs |-> EmptyFrame]
  /\ instructor = [p \in Procs |-> NoInput]
  /\ msgs = [p \in Procs |-> {}]
  /\ calls = [p \in Procs |-> 0]
  /\ wsWrote = [p \in Procs |-> FALSE]
  /\ upset = FALSE

RECURSIVE SumOver(_, _)
SumOver(f, S) == IF S = {} THEN 0 ELSE LET x == CHOOSE y \in S : TRUE IN f[x] + SumOver(f, S \ {x})

\* The wall clock advances.  The code only compares timestamps, so the clock is
\* left to advance once between two readings, while a reading is still to come.
Tick ==
  /\ clock < SumOver(calls, Procs)
  /\ SumOver(calls, Procs) < MaxSubmits
  /\ clock' = clock + 1
  /\ UNCHANGED <<file, openFd, lock, pc, ret, kind, row, df, instructor, msgs, historyVars>>
  /\ UNCHANGED <<scoreVars, boardVars>>

\* The script run ends: the session waits for the next widget event.
Finish(p) ==
  /\ pc' = [pc EXCEPT ![p] = "idle"]
  /\ ret' = [ret EXCEPT ![p] = "idle"]
  /\ kind' = [kind EXCEPT ![p] = "other"]
  /\ row' = [row EXCEPT ![p] = NoRow]
  /\ df' = [df EXCEPT ![p] = EmptyFrame]
  /\ instructor' = [instructor EXCEPT ![p] = NoInput]
  /\ wsWrote' = [wsWrote EXCEPT ![p] = FALSE]

\* An exception ends the script run; a lock held by a with block is released.
Raise(p, what) ==
  /\ Finish(p)
  /\ msgs' = [msgs EXCEPT ![p] = @ \cup {what}]
  /\ lock' = IF lock = p THEN NoProc ELSE lock
  /\ upset' = TRUE

\* A widget event reruns the script, which starts with init_storage() of __main__:
\* if not DATA_FILE.exists()
Rerun(p) ==
  /\ pc[p] = "idle"
  /\ \E k \in {"submit", "other"} :
       LET main == IF k = "submit" THEN "submit" ELSE "rs_exists"
       IN  /\ kind' = [kind EXCEPT ![p] = k]
           /\ ret' = [ret EXCEPT ![p] = main]
           /\ pc' = [pc EXCEPT ![p] = IF file.exists THEN main ELSE "init_open"]
  /\ msgs' = [msgs EXCEPT ![p] = {}]
  /\ UNCHANGED <<file, openFd, lock, clock, row, df, instructor, historyVars>>
  /\ UNCHANGED <<scoreVars, boardVars>>

\* init_storage: if not DATA_FILE.exists()
init_storage_exists(p) ==
  /\ pc[p] = "init_exists"
  /\ pc' = [pc EXCEPT ![p] = IF file.exists THEN ret[p] ELSE "init_open"]
  /\ UNCHANGED <<file, openFd, lock, clock, ret, kind, row, df, instructor, msgs,
                 historyVars>>
  /\ UNCHANGED <<scoreVars, boardVars>>

\* init_storage: df.to_csv(DATA_FILE) opens the file for writing
init_storage_open(p) ==
  /\ pc[p] = "init_open"
  /\ file' = Truncated
  /\ openFd' = openFd \cup {p}
  /\ pc' = [pc EXCEPT ![p] = "init_write"]
  /\ wsWrote' = [wsWrote EXCEPT ![p] = @ \/ ret[p] = "ws_acquire"]
  /\ UNCHANGED <<lock, clock, ret, kind, row, df, instructor, msgs, calls, upset>>
  /\ UNCHANGED <<scoreVars, boardVars>>

\* init_storage: df.to_csv(DATA_FILE) writes the header and closes
init_storage_write(p) ==
  /\ pc[p] = "init_write"
  /\ file' = IF p \in openFd THEN Overlay(file, EmptyFrame) ELSE file
  /\ openFd' = openFd \ {p}
  /\ pc' = [pc EXCEPT ![p] = ret[p]]
  /\ UNCHANGED <<lock, clock, ret, kind, row, df, instructor, msgs, historyVars>>
  /\ UNCHANGED <<scoreVars, boardVars>>

\* main: if submitted: ... write_submission(row), up to init_storage() in it
submit(p) ==
  /\ pc[p] = "submit"
  /\ \E f \in Forms :
       IF Validate(f) = "accepted"
       THEN /\ SumOver(calls, Procs) < MaxSubmits
            /\ calls' = [calls EXCEPT ![p] = @ + 1]
            /\ row' = [row EXCEPT ![p] = BuildRow(f, clock)]
            /\ pc' = [pc EXCEPT ![p] = "init_exists"]
            /\ ret' = [ret EXCEPT ![p] = "ws_acquire"]
            /\ UNCHANGED msgs
       ELSE /\ msgs' = [msgs EXCEPT ![p] = @ \cup {Validate(f)}]
            /\ pc' = [pc EXCEPT ![p] = "rs_exists"]
            /\ UNCHANGED <<row, ret, calls>>
  /\ UNCHANGED <<file, openFd, lock, clock, kind, df, instructor, wsWrote, upset>>
  /\ UNCHANGED <<scoreVars, boardVars>>

\* write_submission: with lock.acquire(timeout=5) gets the lock
write_submission_acquire(p) ==
  /\ pc[p] = "ws_acquire"
  /\ lock = NoProc
  /\ lock' = p
  /\ pc' = [pc EXCEPT ![p] = "ws_read"]
  /\ UNCHANGED <<file, openFd, clock, ret, kind, row, df, instructor, msgs, historyVars>>
  /\ UNCHANGED <<scoreVars, boardVars>>

\* write_submission: the lock stays held past the timeout; except Timeout: st.error
write_submission_timeout(p) ==
  /\ pc[p] = "ws_acquire"
  /\ lock # NoProc
  /\ msgs' = [msgs EXCEPT ![p] = @ \cup {"Server is busy. Please try submitting again."}]
  /\ upset' = TRUE
  /\ pc' = [pc EXCEPT ![p] = "ws_return"]
  /\ UNCHANGED <<file, openFd, lock, clock, ret, kind, row, df, instructor, calls, wsWrote>>
  /\ UNCHANGED <<scoreVars, boardVars>>

\* write_submission: df = pd.read_csv(DATA_FILE); df = pd.concat([df, row])
write_submission_read(p) ==
  /\ pc[p] = "ws_read"
  /\ LET r == read_csv(file)
     IN  IF r.error # ""
         THEN Raise(p, r.error)
         ELSE /\ df' = [df EXCEPT ![p] = concat([columns |-> r.columns, rows |-> r.rows], row[p])]
              /\ pc' = [pc EXCEPT ![p] = "ws_open"]
              /\ UNCHANGED <<lock, ret, kind, row, instructor, msgs, wsWrote, upset>>
  /\ UNCHANGED <<file, openFd, clock, calls>>
  /\ UNCHANGED <<scoreVars, boardVars>>

\* write_submission: df.to_csv(DATA_FILE) opens the file for writing
write_submission_open(p) ==
  /\ pc[p] = "ws_open"
  /\ file' = Truncated
  /\ openFd' = openFd \cup {p}
  /\ wsWrote' = [wsWrote EXCEPT ![p] = TRUE]
  /\ pc' = [pc EXCEPT ![p] = "ws_write"]
  /\ UNCHANGED <<lock, clock, ret, kind, row, df, instructor, msgs, calls, upset>>
  /\ UNCHANGED <<scoreVars, boardVars>>

\* write_submission: df.to_csv(DATA_FILE) writes the frame and closes
write_submission_write(p) ==
  /\ pc[p] = "ws_write"
  /\ file' = IF p \in openFd THEN Overlay(file, df[p]) ELSE file
  /\ openFd' = openFd \ {p}
  /\ pc' = [pc EXCEPT ![p] = "ws_release"]
  /\ UNCHANGED <<lock, clock, ret, kind, row, df, instructor, msgs, historyVars>>
  /\ UNCHANGED <<scoreVars, boardVars>>

\* write_submission: the with block ends and releases the lock
write_submission_release(p) ==
  /\ pc[p] = "ws_release"
  /\ lock' = NoProc
  /\ pc' = [pc EXCEPT ![p] = "ws_return"]
  /\ UNCHANGED <<file, openFd, clock, ret, kind, row, df, instructor, msgs, historyVars>>
  /\ UNCHANGED <<scoreVars, boardVars>>

\* main: write_submission returned; st.success(f"Submitted! Score = ...")
submit_success(p) ==
  /\ pc[p] = "ws_return"
  /\ msgs' = [msgs EXCEPT ![p] = @ \cup {"Submitted!"}]
  /\ df' = [df EXCEPT ![p] = EmptyFrame]
  /\ row' = [row EXCEPT ![p] = NoRow]
  /\ wsWrote' = [wsWrote EXCEPT ![p] = FALSE]
  /\ pc' = [pc EXCEPT ![p] = "rs_exists"]
  /\ UNCHANGED <<file, openFd, lock, clock, ret, kind, instructor, calls, upset>>
  /\ UNCHANGED <<scoreVars, boardVars>>

\* read_submissions: if not DATA_FILE.exists(): init_storage()
read_submissions_exists(p) ==
  /\ pc[p] = "rs_exists"
  /\ IF file.exists
     THEN pc' = [pc EXCEPT ![p] = "rs_read"] /\ UNCHANGED ret
     ELSE pc' = [pc EXCEPT ![p] = "init_exists"] /\ ret' = [ret EXCEPT ![p] = "rs_read"]
  /\ UNCHANGED <<file, openFd, lock, clock, kind, row, df, instructor, msgs, historyVars>>
  /\ UNCHANGED <<scoreVars, boardVars>>

\* read_submissions: return pd.read_csv(DATA_FILE); the leaderboard is drawn from it.
\* Then go = st.form_submit_button("Apply"): the instructor form was applied, or the
\* script ends.
read_submissions_read(p) ==
  /\ pc[p] = "rs_read"
  /\ LET r == read_csv(file)
     IN  IF r.error # ""
         THEN Raise(p, r.error)
         ELSE \/ /\ kind[p] = "other"
                 /\ pc' = [pc EXCEPT ![p] = "admin"]
                 /\ \E code \in Codes, action \in Actions, environ \in Environs :
                      instructor' = [instructor EXCEPT ![p] =
                        [code |-> code, action |-> action, environ |-> environ]]
                 /\ UNCHANGED <<lock, ret, kind, row, df, msgs, wsWrote, upset>>
              \/ Finish(p) /\ UNCHANGED <<lock, msgs, upset>>
  /\ UNCHANGED <<file, openFd, clock, calls>>
  /\ UNCHANGED <<scoreVars, boardVars>>

\* main: admin_code = os.getenv(...); if go: the code is compared, the action looked at
admin(p) ==
  /\ pc[p] = "admin"
  /\ IF CodeRejected(instructor[p].code, instructor[p].environ)
     THEN /\ msgs' = [msgs EXCEPT ![p] = @ \cup {"Wrong admin code."}]
          /\ Finish(p)
     ELSE IF instructor[p].action = "Reset all data"
     THEN /\ pc' = [pc EXCEPT ![p] = "reset_acquire"]
          /\ instructor' = [instructor EXCEPT ![p] = NoInput]
          /\ UNCHANGED <<ret, kind, row, df, msgs, wsWrote>>
     ELSE /\ msgs' = [msgs EXCEPT ![p] = @ \cup {"Choose an action first."}]
          /\ Finish(p)
  /\ UNCHANGED <<file, openFd, lock, clock, calls, upset>>
  /\ UNCHANGED <<scoreVars, boardVars>>

\* reset: with lock.acquire(timeout=5) gets the lock
reset_acquire(p) ==
  /\ pc[p] = "reset_acquire"
  /\ lock = NoProc
  /\ lock' = p
  /\ pc' = [pc EXCEPT ![p] = "reset_unlink"]
  /\ UNCHANGED <<file, openFd, clock, ret, kind, row, df, instructor, msgs, historyVars>>
  /\ UNCHANGED <<scoreVars, boardVars>>

\* reset: except Timeout: st.error("Could not acquire file lock to reset. Try again.")
reset_timeout(p) ==
  /\ pc[p] = "reset_acquire"
  /\ lock # NoProc
  /\ msgs' = [msgs EXCEPT ![p] = @ \cup {"Could not acquire file lock to reset. Try again."}]
  /\ upset' = TRUE
  /\ Finish(p)
  /\ UNCHANGED <<file, openFd, lock, clock, calls>>
  /\ UNCHANGED <<scoreVars, boardVars>>

\* reset: if DATA_FILE.exists(): DATA_FILE.unlink(); then init_storage()
reset_unlink(p) ==
  /\ pc[p] = "reset_unlink"
  /\ file' = IF file.exists THEN NoFile ELSE file
  /\ openFd' = IF file.exists THEN {} ELSE openFd
  /\ upset' = TRUE
  /\ pc' = [pc EXCEPT ![p] = "init_exists"]
  /\ ret' = [ret EXCEPT ![p] = "reset_release"]
  /\ UNCHANGED <<lock, clock, kind, row, df, instructor, msgs, calls, wsWrote>>
  /\ UNCHANGED <<scoreVars, boardVars>>

\* reset: the with block ends; st.success("All submissions cleared.")
reset_release(p) ==
  /\ pc[p] = "reset_release"
  /\ lock' = NoProc
  /\ msgs' = [msgs EXCEPT ![p] = @ \cup {"All submissions cleared."}]
  /\ Finish(p)
  /\ UNCHANGED <<file, openFd, clock, calls, upset>>
  /\ UNCHANGED <<scoreVars, boardVars>>

Next ==
  \/ Tick
  \/ \E p \in Procs :
       \/ Rerun(p)
       \/ init_storage_exists(p)
       \/ init_storage_open(p)
       \/ init_storage_write(p)
       \/ submit(p)
       \/ write_submission_acquire(p)
       \/ write_submission_timeout(p)
       \/ write_submission_read(p)
       \/ write_submission_open(p)
       \/ write_submission_write(p)
       \/ write_submission_release(p)
       \/ submit_success(p)
       \/ read_submissions_exists(p)
       \/ read_submissions_read(p)
       \/ admin(p)
       \/ reset_acquire(p)
       \/ reset_timeout(p)
       \/ reset_unlink(p)
       \/ reset_release(p)

Spec == Init /\ [][Next]_vars

\* ------------------------------------------------------------ score_binary
\* the calls of score_binary: any two lists of at most MaxItems answers and items
AnswerLists == UNION {[1..n -> {"Yes", "No"}] : n \in 0..MaxItems}

ItemLists == UNION {[1..n -> {[answer |-> "Yes"], [answer |-> "No"]}] : n \in 0..MaxItems}

ScoreInit ==
  /\ scoreIn \in [answers : AnswerLists, key_items : ItemLists, points_each : 0..MaxPoints]
  /\ scoreOut = NoResult
  /\ subs = <<>>
  /\ board = NoBoard
  /\ file = NoFile
  /\ openFd = {}
  /\ lock = NoProc
  /\ clock = 0
  /\ pc = [p \in Procs |-> "idle"]
  /\ ret = [p \in Procs |-> "idle"]
  /\ kind = [p \in Procs |-> "other"]
  /\ row = [p \in Procs |-> NoRow]
  /\ df = [p \in Procs |-> EmptyFrame]
  /\ instructor = [p \in Procs |-> NoInput]
  /\ msgs = [p \in Procs |-> {}]
  /\ calls = [p \in Procs |-> 0]
  /\ wsWrote = [p \in Procs |-> FALSE]
  /\ upset = FALSE

\* score_binary runs on its arguments; no statement of it raises
score_binary_call ==
  /\ ~scoreOut.done
  /\ scoreOut' = [done |-> TRUE, error |-> "",
                  value |-> score_binary(scoreIn.answers, scoreIn.key_items,
                                         scoreIn.points_each)]
  /\ UNCHANGED <<scoreIn, boardVars, ledgerVars, historyVars>>

ScoreNext == score_binary_call

SpecScore == ScoreInit /\ [][ScoreNext]_vars

\* ------------------------------------------------------------- leaderboard
\* Python orders strings by code point
Alphabet == <<" ", "A", "B">>

CharRank(c) == CHOOSE i \in 1..Len(Alphabet) : Alphabet[i] = c

RECURSIVE StrLess(_, _)
StrLess(a, b) ==
  IF b = <<>> THEN FALSE
  ELSE IF a = <<>> THEN TRUE
  ELSE IF Head(a) # Head(b) THEN CharRank(Head(a)) < CharRank(Head(b))
  ELSE StrLess(Tail(a), Tail(b))

MutViewBefore(a, b) ==
  \/ StrLess(a.team, b.team)
  \/ a.team = b.team /\ a.score < b.score
  \/ a.team = b.team /\ a.score = b.score /\ a.ts_iso < b.ts_iso

\* view.sort_values(["team", "score", "ts_iso"], ascending=[True, False, True])
ViewBefore(a, b) ==
  \/ StrLess(a.team, b.team)
  \/ a.team = b.team /\ a.score > b.score
  \/ a.team = b.team /\ a.score = b.score /\ a.ts_iso < b.ts_iso

MutBestBefore(a, b) ==
  \/ a.score > b.score
  \/ a.score = b.score /\ a.ts_iso > b.ts_iso

\* best.sort_values(["score", "ts_iso"], ascending=[False, True])
BestBefore(a, b) ==
  \/ a.score > b.score
  \/ a.score = b.score /\ a.ts_iso < b.ts_iso

\* where a stable sort puts x among the sorted s: before the first row it is
\* strictly before
ViewPlace(x, s) ==
  IF \E i \in 1..Len(s) : ViewBefore(x, s[i])
  THEN CHOOSE i \in 1..Len(s) : ViewBefore(x, s[i]) /\ \A j \in 1..(i - 1) : ~ViewBefore(x, s[j])
  ELSE Len(s) + 1

BestPlace(x, s) ==
  IF \E i \in 1..Len(s) : BestBefore(x, s[i])
  THEN CHOOSE i \in 1..Len(s) : BestBefore(x, s[i]) /\ \A j \in 1..(i - 1) : ~BestBefore(x, s[j])
  ELSE Len(s) + 1

InsertAt(x, s, k) == SubSeq(s, 1, k - 1) \o <<x>> \o SubSeq(s, k, Len(s))

\* DataFrame.sort_values on several columns is a stable sort
SortView(s) ==
  LET Sorted[i \in 0..Len(s)] ==
        IF i = 0 THEN <<>> ELSE InsertAt(s[i], Sorted[i - 1], ViewPlace(s[i], Sorted[i - 1]))
  IN  Sorted[Len(s)]

SortBest(s) ==
  LET Sorted[i \in 0..Len(s)] ==
        IF i = 0 THEN <<>> ELSE InsertAt(s[i], Sorted[i - 1], BestPlace(s[i], Sorted[i - 1]))
  IN  Sorted[Len(s)]

\* view.groupby("team", as_index=False).first() of a view sorted by team: the first
\* row of every team, the teams in order (no column of a row is null)
GroupFirst(view) ==
  LET first == {i \in 1..Len(view) : i = 1 \/ view[i].team # view[i - 1].team}
      Pick[i \in 0..Len(view)] ==
        IF i = 0 THEN <<>>
        ELSE IF i \in first THEN Append(Pick[i - 1], view[i]) ELSE Pick[i - 1]
  IN  Pick[Len(view)]

\* the table st.dataframe draws: rank inserted, ts_iso renamed to submitted_utc
leaderboard(d, show_round) ==
  LET view == SortView(SelectSeq(d, LAMBDA r : r.round = show_round))
      best == SortBest(GroupFirst(view))
  IN  [i \in 1..Len(best) |->
         [rank |-> i, team |-> best[i].team, scenario_title |-> best[i].scenario_title,
          score |-> best[i].score, submitted_utc |-> best[i].ts_iso]]

\* The rows read_submissions may return, in the columns the leaderboard reads.
BoardRows ==
  { [ts_iso |-> t, round |-> r, team |-> n, scenario_title |-> round_map(r).title, score |-> v] :
      t \in {0, 1}, r \in {1, 2}, n \in {<<"A">>, <<"B">>, <<"A", "B">>}, v \in {10, 19} }

BoardInit ==
  /\ subs = <<>>
  /\ board = NoBoard
  /\ scoreIn = NoCall
  /\ scoreOut = NoResult
  /\ file = NoFile
  /\ openFd = {}
  /\ lock = NoProc
  /\ clock = 0
  /\ pc = [p \in Procs |-> "idle"]
  /\ ret = [p \in Procs |-> "idle"]
  /\ kind = [p \in Procs |-> "other"]
  /\ row = [p \in Procs |-> NoRow]
  /\ df = [p \in Procs |-> EmptyFrame]
  /\ instructor = [p \in Procs |-> NoInput]
  /\ msgs = [p \in Procs |-> {}]
  /\ calls = [p \in Procs |-> 0]
  /\ wsWrote = [p \in Procs |-> FALSE]
  /\ upset = FALSE

\* one more stored row is in the frame the next read_submissions returns
frame_grows ==
  /\ Len(subs) < MaxHist
  /\ \E r \in BoardRows : subs' = Append(subs, r)
  /\ board' = NoBoard
  /\ UNCHANGED <<scoreVars, ledgerVars, historyVars>>

\* main: if not df.empty: the leaderboard of the round picked in the number input
draw_leaderboard ==
  /\ subs # <<>>
  /\ \E show_round \in MinRound..MaxRound :
       board' = [shown |-> TRUE, show_round |-> show_round,
                 best |-> leaderboard(subs, show_round)]
  /\ UNCHANGED <<subs, scoreVars, ledgerVars, historyVars>>

BoardNext == frame_grows \/ draw_leaderboard

SpecBoard == BoardInit /\ [][BoardNext]_vars

\* =================================================================== claims
Idle == \A p \in Procs : pc[p] = "idle"

Busy == "Server is busy. Please try submitting again."

\* a row the submit handler builds from an accepted form
WellFormed(r) ==
  \E f \in Forms, t \in 0..MaxSubmits : Validate(f) = "accepted" /\ r = BuildRow(f, t)

\* C1: every session has called write_submission once against the empty store, no
\* Timeout or other exception was raised and no reset ran; once all sessions are
\* back at rest, the store reads back exactly one well-formed record per call.
C1_AllAppendsStored ==
  (Idle /\ ~upset /\ \A p \in Procs : calls[p] = 1)
    => /\ read_csv(file).error = ""
       /\ Len(read_csv(file).rows) = Cardinality(Procs)
       /\ \A i \in 1..Len(file.rows) : WellFormed(file.rows[i])

\* C2: when init_storage opens the file for writing, the store holds no record
\* (init_storage never overwrites a store that an append has written to).
C2_InitNeverOverwrites ==
  [][\A p \in Procs : (pc[p] = "init_open" /\ pc'[p] = "init_write") => file.rows = <<>>]_vars

\* session q is inside write_submission's read-modify-write, past its read
InAppend(q) == pc[q] \in {"ws_open", "ws_write", "ws_release"}

\* C3: a read_submissions that runs while another session is inside its append
\* returns the store as that append read it or as that append writes it back.
C3_ReadSeesSnapshot ==
  [][\A p, q \in Procs :
       (pc[p] = "rs_read" /\ pc'[p] # "rs_read" /\ InAppend(q))
         => /\ read_csv(file).error = ""
            /\ read_csv(file).rows \in
                 {df[q].rows, SubSeq(df[q].rows, 1, Len(df[q].rows) - 1)}]_vars

\* C4: a write_submission call that ended in the lock Timeout wrote nothing to the
\* store: it neither created nor truncated the file.
C4_TimeoutWritesNothing ==
  \A p \in Procs : (pc[p] = "ws_return" /\ Busy \in msgs[p]) => ~wsWrote[p]

\* C5: the timestamps of the stored records never decrease in row order.
C5_TimestampsMonotone ==
  \A i \in 1..(Len(file.rows) - 1) : file.rows[i].ts_iso <= file.rows[i + 1].ts_iso

SectionSum(r) ==
  r.detail_problem + r.detail_goals + r.detail_model + r.detail_feas + r.detail_plan

\* the most the five sections of a scenario can give
MaxSections(key) ==
  LET block == scenarios(key)
  IN  block.problem_single.points
        + Len(block.goals_multi.answer_indices) * block.goals_multi.points_each
        + block.model_single.points
        + Len(block.feasibility_binary.question_items) * block.feasibility_binary.points_each
        + block.plan_single.points

\* C6 as stated: every stored record's score is the sum of its five section
\* scores, and so lies between 0 and the most the sections can give.
C6_ScoreIsSectionSum ==
  \A i \in 1..Len(file.rows) :
    /\ file.rows[i].score = SectionSum(file.rows[i])
    /\ file.rows[i].score \in 0..MaxSections(file.rows[i].scenario_key)

\* C6 amended: every stored record's score is the sum of its five section scores
\* plus its mini-game bonus, the bonus being 10 from 15 clicks on and 0 below; the
\* score lies between 0 and the most the sections can give plus 10.
C6_ScoreIsSectionSumPlusBonus ==
  \A i \in 1..Len(file.rows) :
    LET r == file.rows[i]
    IN  /\ r.minigame_bonus = (IF r.minigame_score >= BonusClicks THEN BonusPoints ELSE 0)
        /\ r.score = SectionSum(r) + r.minigame_bonus
        /\ r.score \in 0..(MaxSections(r.scenario_key) + BonusPoints)

\* C6 witness: a record with the bonus and a record without it, which has part of
\* the section points, are both stored.
C6_Witness ==
  /\ \E i \in 1..Len(file.rows) : file.rows[i].minigame_bonus = BonusPoints
  /\ \E i \in 1..Len(file.rows) :
       /\ file.rows[i].minigame_bonus = 0
       /\ SectionSum(file.rows[i]) > 0
       /\ SectionSum(file.rows[i]) < MaxSections(file.rows[i].scenario_key)

\* C9: when the instructor form is applied with a code that differs from the
\* configured admin code, the handler ends with "Wrong admin code." and the step
\* leaves the file and the lock as they were: no reset is started.
C9_WrongCodeChangesNothing ==
  [][\A p \in Procs :
       (/\ pc[p] = "admin"
        /\ pc'[p] # "admin"
        /\ instructor[p].code # admin_code(instructor[p].environ))
         => /\ pc'[p] = "idle"
            /\ "Wrong admin code." \in msgs'[p]
            /\ file' = file
            /\ openFd' = openFd
            /\ lock' = lock]_vars

\* C9 witness: a wrong code was turned down while the store held records, which
\* are still there.
C9_Witness ==
  \E p \in Procs :
    /\ pc[p] = "idle"
    /\ "Wrong admin code." \in msgs[p]
    /\ lock = NoProc
    /\ read_csv(file).error = ""
    /\ Len(file.rows) = MaxSubmits

\* the rows of the frame in the round shown
InRound == SelectSeq(subs, LAMBDA r : r.round = board.show_round)

TeamRows(t) == {r \in Range(InRound) : r.team = t}

\* C7: the leaderboard has exactly one row for every team with a record in the
\* round shown and none for another team; the row carries the team's highest
\* score of the round and the earliest timestamp among its records at that score.
C7_BestPerTeam ==
  board.shown =>
    /\ {b.team : b \in Range(board.best)} = {r.team : r \in Range(InRound)}
    /\ \A i, j \in 1..Len(board.best) : board.best[i].team = board.best[j].team => i = j
    /\ \A b \in Range(board.best) :
         /\ \A r \in TeamRows(b.team) : r.score <= b.score
         /\ \E r \in TeamRows(b.team) : r.score = b.score /\ r.ts_iso = b.submitted_utc
         /\ \A r \in TeamRows(b.team) : r.score = b.score => b.submitted_utc <= r.ts_iso

\* C7 witness: a team's later, lower-scoring record is in the round shown, and the
\* board keeps the earlier, higher one.
C7_Witness ==
  /\ board.shown
  /\ \E i, j \in 1..Len(subs) :
       /\ i < j
       /\ subs[i].team = subs[j].team
       /\ subs[i].round = board.show_round /\ subs[j].round = board.show_round
       /\ subs[i].score > subs[j].score
       /\ subs[i].ts_iso < subs[j].ts_iso
       /\ \E b \in Range(board.best) :
            b.team = subs[i].team /\ b.score = subs[i].score /\ b.submitted_utc = subs[i].ts_iso

\* C8: the leaderboard rows are in order of score descending and, at equal score,
\* of timestamp ascending, and row i has rank i.
C8_RankOrder ==
  board.shown =>
    /\ \A i \in 1..Len(board.best) : board.best[i].rank = i
    /\ \A i, j \in 1..Len(board.best) :
         i < j => \/ board.best[i].score > board.best[j].score
                  \/ /\ board.best[i].score = board.best[j].score
                     /\ board.best[i].submitted_utc <= board.best[j].submitted_utc

\* C8 witness: three teams are ranked, two of them tied on score at different times.
C8_Witness ==
  /\ board.shown
  /\ Len(board.best) = 3
  /\ board.best[1].score > board.best[2].score
  /\ board.best[2].score = board.best[3].score
  /\ board.best[2].submitted_utc < board.best[3].submitted_utc

\* the positions at which the answer given equals the item's expected answer
Matches(answers, key_items) ==
  {i \in 1..Len(answers) : answers[i] = key_items[i].answer}

\* C10: score_binary on lists of different lengths fails with InvalidInput; on
\* lists of equal length it returns points_each times the number of matches.
C10_BinaryChecksLengths ==
  scoreOut.done =>
    IF Len(scoreIn.answers) # Len(scoreIn.key_items)
    THEN scoreOut.error = "InvalidInput"
    ELSE /\ scoreOut.error = ""
         /\ scoreOut.value
              = scoreIn.points_each * Cardinality(Matches(scoreIn.answers, scoreIn.key_items))

\* C11: whenever the submit handler reports "Submitted!", the write_submission call
\* it follows has appended the record: the call went through the locked read,
\* concat and to_csv, and did not end in the Timeout that reports the server busy.
C11_SuccessOnlyIfAppended ==
  [][\A p \in Procs :
       (pc[p] = "ws_return" /\ "Submitted!" \in msgs'[p])
         => (wsWrote[p] /\ Busy \notin msgs[p])]_vars

====
